---- MODULE Spec2Model ----
(***************************************************************************)
(* hashcache: a decorator that memoizes a function's results on disk, one   *)
(* pickle file per call signature, named by the md5 of the pickled          *)
(* signature (src/hashcache/hashcache.py).                                  *)
(*                                                                          *)
(* The model follows wrapper() statement by statement.  Byte strings are    *)
(* sequences of integers 0..255; pickle.dumps / pickle.load are modelled at *)
(* the level of protocol-4 opcodes for the values the model uses.           *)
(***************************************************************************)
EXTENDS Integers, Sequences, FiniteSets, TLC

(***************************************************************************)
(* Bounds of the model.                                                     *)
(***************************************************************************)
\* calls of wrapped functions made in a concurrent run (all threads together)
MaxCalls == 2
\* calls made one after the other in a single-threaded run
SeqCalls == 2

Threads == {"t1", "t2"}
\* a value neither pickle nor dill can encode (a generator, an open socket)
Unpicklable == 0 - 1
\* the object None
NoneObj == 0 - 2
\* what a wrapped function may return: an int, None (whose pickle is one byte
\* shorter than an int's), or an object that cannot be pickled
Values == {16, NoneObj, Unpicklable}

(***************************************************************************)
(* Call signatures: [func.__name__, args, kwargs, cache_nonce].  kwargs is  *)
(* the dict Python builds from the call site: its items in call order.      *)
(* cache_nonce is <<>> for None and <<s>> for the string s.                 *)
(***************************************************************************)
MkSig(name, args, kwargs, cache_nonce) ==
    [name |-> name, args |-> args, kwargs |-> kwargs, cache_nonce |-> cache_nonce]

XY == << <<"x", 1>>, <<"y", 2>> >>
YX == << <<"y", 2>>, <<"x", 1>> >>

\* f(x=1, y=2, cache_nonce="a"), the same with cache_nonce="b", the same
\* with the keywords given as y=2, x=1, and f(v) for an unpicklable v
Sigs ==
    { MkSig("f", <<>>, XY, <<"a">>),
      MkSig("f", <<>>, XY, <<"b">>),
      MkSig("f", <<>>, YX, <<"a">>),
      MkSig("f", <<Unpicklable>>, <<>>, <<>>) }

(***************************************************************************)
(* pickle, protocol 4 (pickle.DEFAULT_PROTOCOL).                            *)
(***************************************************************************)
\* the opcodes the model uses, by their byte values
Op ==
    [ PROTO |-> 128,
      FRAME |-> 149,
      EMPTY_LIST |-> 93,
      EMPTY_TUPLE |-> 41,
      EMPTY_DICT |-> 125,
      MEMOIZE |-> 148,
      MARK |-> 40,
      SHORT_BINUNICODE |-> 140,
      BININT1 |-> 75,
      NONE |-> 78,
      INT |-> 73,
      TUPLE1 |-> 133,
      TUPLE2 |-> 134,
      SETITEM |-> 115,
      SETITEMS |-> 117,
      APPENDS |-> 101,
      STOP |-> 46 ]

\* the utf-8 bytes of the one-character strings the model uses
Utf8(s) ==
    CASE s = "f" -> <<102>>
      [] s = "a" -> <<97>>
      [] s = "b" -> <<98>>
      [] s = "x" -> <<120>>
      [] s = "y" -> <<121>>

RECURSIVE Flatten(_)
Flatten(ss) == IF ss = <<>> THEN <<>> ELSE Head(ss) \o Flatten(Tail(ss))

\* n as 8 little-endian bytes (a FRAME's length), n < 256
Le8(n) == <<n, 0, 0, 0, 0, 0, 0, 0>>

\* can the pickler encode v
Picklable(v) == v # Unpicklable

\* save_long: a small non-negative int
SaveInt(v) == <<Op.BININT1, v>>

\* save_str: a short string, then memoized
SaveStr(s) == <<Op.SHORT_BINUNICODE, Len(Utf8(s))>> \o Utf8(s) \o <<Op.MEMOIZE>>

\* save_tuple, for tuples of up to two ints
SaveTuple(t) ==
    CASE Len(t) = 0 -> <<Op.EMPTY_TUPLE>>
      [] Len(t) = 1 -> SaveInt(t[1]) \o <<Op.TUPLE1, Op.MEMOIZE>>
      [] Len(t) = 2 -> SaveInt(t[1]) \o SaveInt(t[2]) \o <<Op.TUPLE2, Op.MEMOIZE>>

\* save_dict: the items in the dict's own (insertion) order
SaveDict(d) ==
    LET item(i) == SaveStr(d[i][1]) \o SaveInt(d[i][2])
        items == Flatten([i \in 1..Len(d) |-> item(i)])
    IN  CASE Len(d) = 0 -> <<Op.EMPTY_DICT, Op.MEMOIZE>>
          [] Len(d) = 1 -> <<Op.EMPTY_DICT, Op.MEMOIZE>> \o items \o <<Op.SETITEM>>
          [] OTHER -> <<Op.EMPTY_DICT, Op.MEMOIZE, Op.MARK>> \o items \o <<Op.SETITEMS>>

\* SaveNonce with cache_nonce left out of cache_keys: None is pickled in its place
SaveNonceDropped(n) == <<Op.NONE>>

\* cache_nonce: None or a string
SaveNonce(n) == IF n = <<>> THEN <<Op.NONE>> ELSE SaveStr(n[1])

\* the protocol header and, for a body of four bytes or more, its frame
Framed(body) ==
    IF Len(body) < 4 THEN <<Op.PROTO, 4>> \o body
    ELSE <<Op.PROTO, 4, Op.FRAME>> \o Le8(Len(body)) \o body

\* can pickle.dumps encode the list [name, args, kwargs, cache_nonce]
SigPicklable(sig) ==
    /\ \A i \in 1..Len(sig.args) : Picklable(sig.args[i])
    /\ \A i \in 1..Len(sig.kwargs) : Picklable(sig.kwargs[i][2])

\* pickle.dumps([func.__name__, args, kwargs, cache_nonce])
DumpsSig(sig) ==
    Framed(<<Op.EMPTY_LIST, Op.MEMOIZE, Op.MARK>>
           \o SaveStr(sig.name) \o SaveTuple(sig.args)
           \o SaveDict(sig.kwargs) \o SaveNonce(sig.cache_nonce)
           \o <<Op.APPENDS, Op.STOP>>)

\* save_none
SaveNone == <<Op.NONE>>

\* pickle.dumps(result) for a picklable result
Dumps(v) == Framed((IF v = NoneObj THEN SaveNone ELSE SaveInt(v)) \o <<Op.STOP>>)

(***************************************************************************)
(* pickle.load.  The outcome is a record: exc is "none" and value the       *)
(* object, or exc names the exception raised.                               *)
(***************************************************************************)
Loaded(v) == [exc |-> "none", value |-> v]
Raised(e) == [exc |-> e, value |-> NoneObj]

IsDigit(c) == c \in 48..57

\* the decimal value of a line of digits (the INT opcode's argument)
RECURSIVE Decimal(_)
Decimal(line) ==
    IF line = <<>> THEN 0
    ELSE 10 * Decimal(SubSeq(line, 1, Len(line) - 1)) + (line[Len(line)] - 48)

\* the unpickler's loop from byte i, with `stack` its stack
RECURSIVE LoadFrom(_, _, _)
LoadFrom(b, i, stack) ==
    IF i > Len(b) THEN Raised("EOFError")
    ELSE
      CASE b[i] = Op.PROTO ->
             IF i + 1 > Len(b) THEN Raised("UnpicklingError")
             ELSE IF b[i + 1] > 5 THEN Raised("ValueError")
             ELSE LoadFrom(b, i + 2, stack)
        [] b[i] = Op.FRAME ->
             IF i + 8 > Len(b) THEN Raised("UnpicklingError")
             ELSE IF b[i + 8] >= 128 THEN Raised("OverflowError")
             ELSE IF \E j \in 2..8 : b[i + j] # 0 THEN Raised("UnpicklingError")
             ELSE IF i + 8 + b[i + 1] > Len(b) THEN Raised("UnpicklingError")
             ELSE LoadFrom(b, i + 9, stack)
        [] b[i] = Op.BININT1 ->
             IF i + 1 > Len(b) THEN Raised("UnpicklingError")
             ELSE LoadFrom(b, i + 2, stack \o <<b[i + 1]>>)
        [] b[i] = Op.NONE -> LoadFrom(b, i + 1, stack \o <<NoneObj>>)
        [] b[i] = Op.INT ->
             LET ends == {j \in (i + 1)..Len(b) : b[j] = 10} IN
             IF ends = {} THEN Raised("UnpicklingError")
             ELSE LET e == CHOOSE j \in ends : \A k \in ends : j <= k
                      line == SubSeq(b, i + 1, e - 1)
                      nuls == {k \in 1..Len(line) : line[k] = 0}
                      \* the line is read as a C string: it ends at a NUL
                      text == IF nuls = {} THEN line
                              ELSE SubSeq(line, 1, (CHOOSE k \in nuls :
                                                     \A m \in nuls : k <= m) - 1)
                  IN  IF line = <<>> THEN Raised("UnpicklingError")
                      ELSE IF \E k \in 1..Len(text) : ~IsDigit(text[k])
                      THEN Raised("ValueError")
                      ELSE LoadFrom(b, e + 1, stack \o <<Decimal(text)>>)
        [] b[i] = Op.STOP ->
             IF stack = <<>> THEN Raised("UnpicklingError")
             ELSE Loaded(stack[Len(stack)])
        [] OTHER -> Raised("UnpicklingError")

\* pickle.load(file) on a file holding the bytes b
Load(b) == LoadFrom(b, 1, <<>>)

(***************************************************************************)
(* Key derivation (wrapper, lines 46-60).                                   *)
(***************************************************************************)
\* dill.dumps(cache_keys): for plain data dill's pickler emits pickle's bytes
DillDumpsSig(sig) == DumpsSig(sig)

\* hashlib.md5(cache_keys).hexdigest(): md5's values on the pickles of
\* f(x=1, y=2) and f(y=2, x=1) with cache_nonce "a", "b" and None
Md5Hex(b) ==
    CASE b = <<128, 4, 149, 30, 0, 0, 0, 0, 0, 0, 0, 93, 148, 40, 140, 1,
               102, 148, 41, 125, 148, 40, 140, 1, 120, 148, 75, 1, 140, 1,
               121, 148, 75, 2, 117, 140, 1, 97, 148, 101, 46>>
           -> "b0c522a7fa5d15a96e90d4c9a6624d62"
      [] b = <<128, 4, 149, 30, 0, 0, 0, 0, 0, 0, 0, 93, 148, 40, 140, 1,
               102, 148, 41, 125, 148, 40, 140, 1, 120, 148, 75, 1, 140, 1,
               121, 148, 75, 2, 117, 140, 1, 98, 148, 101, 46>>
           -> "0f1745b51937ae6d0bdc3645c63f6534"
      [] b = <<128, 4, 149, 30, 0, 0, 0, 0, 0, 0, 0, 93, 148, 40, 140, 1,
               102, 148, 41, 125, 148, 40, 140, 1, 121, 148, 75, 2, 140, 1,
               120, 148, 75, 1, 117, 140, 1, 97, 148, 101, 46>>
           -> "68ecabf824c6fe1233f610948403af72"
      [] b = <<128, 4, 149, 27, 0, 0, 0, 0, 0, 0, 0, 93, 148, 40, 140, 1,
               102, 148, 41, 125, 148, 40, 140, 1, 120, 148, 75, 1, 140, 1,
               121, 148, 75, 2, 117, 78, 101, 46>>
           -> "b53f95654fa503abf05986e85ee1c89d"
      [] b = <<128, 4, 149, 27, 0, 0, 0, 0, 0, 0, 0, 93, 148, 40, 140, 1,
               102, 148, 41, 125, 148, 40, 140, 1, 121, 148, 75, 2, 140, 1,
               120, 148, 75, 1, 117, 78, 101, 46>>
           -> "635c31e94151551e7472daf842e59767"

\* can the chosen serializer encode the signature (lines 51, 55); an
\* Unpicklable argument is one neither serializer encodes
KeyDerivable(sig, use_dill) == SigPicklable(sig)

\* CacheKeys with cache_keys = [func.__name__, args, kwargs], the nonce forgotten
CacheKeysNoNonce(sig, use_dill) == DumpsSig([sig EXCEPT !.cache_nonce = <<>>])

\* cache_keys (lines 46-55)
CacheKeys(sig, use_dill) == IF use_dill THEN DillDumpsSig(sig) ELSE DumpsSig(sig)

\* cache_path (lines 57-60): the file <hexdigest>.pkl of the cache directory
CachePath(sig, use_dill) == Md5Hex(CacheKeys(sig, use_dill))

(***************************************************************************)
(* State.                                                                   *)
(***************************************************************************)
VARIABLES
    files,          \* the cache directory: cache_path of an existing file -> its bytes
    lock,           \* lock[c]: the thread holding the lock of cache c, or "free"
    pc,             \* pc[t]: the statement of wrapper thread t is at
    call,           \* call[t]: the locals of t's running call
    last,           \* the outcome of the call that finished most recently
    stored,         \* stored[path]: who wrote the record last, and what
    budget,         \* calls that may still be started
    active,         \* the threads that make calls
    instances,      \* the caches constructed by hashcache(directory)
    dillInstalled   \* can `import dill` succeed in this process

vars == <<files, lock, pc, call, last, stored, budget, active, instances, dillInstalled>>

\* the caches a process may construct on the one directory: each call of
\* hashcache(directory) makes its own lock (line 40)
Caches == {"c1", "c2"}
Free == "free"

NoSig == MkSig("", <<>>, <<>>, <<>>)

\* the state of a record: does the file exist, and its bytes
Record(fs, path) ==
    IF path \in DOMAIN fs THEN [exists |-> TRUE, bytes |-> fs[path]]
    ELSE [exists |-> FALSE, bytes |-> <<>>]

NoRecord == [exists |-> FALSE, bytes |-> <<>>]

\* a thread that is in no call
NoCall ==
    [cache |-> "", sig |-> NoSig, use_cache |-> FALSE, refresh_cache |-> FALSE,
     cache_path |-> "", result |-> NoneObj,
     invoked |-> FALSE, warned |-> 0, before |-> NoRecord]

NoOutcome ==
    [sig |-> NoSig, use_cache |-> FALSE, refresh_cache |-> FALSE,
     cache_path |-> "", outcome |-> "none", value |-> NoneObj, exc |-> "",
     invoked |-> FALSE, before |-> NoRecord]

\* what a finished call leaves for its caller: `return v` or an exception
Outcome(c, outcome, value, exc) ==
    [sig |-> c.sig, use_cache |-> c.use_cache, refresh_cache |-> c.refresh_cache,
     cache_path |-> c.cache_path, outcome |-> outcome, value |-> value, exc |-> exc,
     invoked |-> c.invoked, before |-> c.before]

NotStored == [sig |-> NoSig, value |-> NoneObj, valid |-> FALSE]

\* records damaged outside the program: zero bytes, a truncated pickle, and
\* the bytes b"I1x\n." (an INT opcode whose argument is no number)
CorruptedBytes == { <<>>, <<128, 4, 75>>, <<73, 49, 120, 10, 46>> }

Paths == {CachePath(sig, FALSE) : sig \in {x \in Sigs : SigPicklable(x)}}

\* os.makedirs(directory); lock = threading.Lock()  (lines 39-40)
InitCache ==
    /\ lock = [c \in Caches |-> Free]
    /\ pc = [t \in Threads |-> "idle"]
    /\ call = [t \in Threads |-> NoCall]
    /\ last = NoOutcome
    /\ stored = [p \in Paths |-> NotStored]
    /\ dillInstalled \in BOOLEAN

\* threads calling into a cache whose directory is empty
Init ==
    /\ InitCache
    /\ instances = {"c1"}
    /\ files = <<>>
    /\ budget = MaxCalls
    /\ active = Threads

\* threads calling into two caches constructed on one directory, which is empty
TwoInit ==
    /\ InitCache
    /\ instances = Caches
    /\ files = <<>>
    /\ budget = MaxCalls
    /\ active = Threads

\* the signature whose record is the file at `path`
SigOf(path) == CHOOSE sig \in Sigs : SigPicklable(sig) /\ CachePath(sig, FALSE) = path

\* one thread calling into a cache whose directory is empty, or holds one
\* record left by an earlier run: the result 16, or a damaged file
SeqInit ==
    /\ lock = [c \in Caches |-> Free]
    /\ instances = {"c1"}
    /\ pc = [t \in Threads |-> "idle"]
    /\ call = [t \in Threads |-> NoCall]
    /\ last = NoOutcome
    /\ dillInstalled \in BOOLEAN
    /\ \/ /\ files = <<>>
          /\ stored = [p \in Paths |-> NotStored]
       \/ \E p \in Paths, b \in CorruptedBytes :
            /\ files = [q \in {p} |-> b]
            /\ stored = [q \in Paths |-> NotStored]
       \/ \E p \in Paths :
            /\ files = [q \in {p} |-> Dumps(16)]
            /\ stored = [q \in Paths |->
                           IF q = p THEN [sig |-> SigOf(p), value |-> 16, valid |-> TRUE]
                           ELSE NotStored]
    /\ budget = SeqCalls
    /\ active = {"t1"}

(***************************************************************************)
(* wrapper: one call of the decorated function, statement by statement.    *)
(***************************************************************************)
\* KeyError with the default serializer used when dill cannot be imported
KeyErrorFallsBack(sig, use_dill) ==
    IF ~KeyDerivable(sig, use_dill) THEN "PicklingError" ELSE ""

\* the exception key derivation raises, "" when it raises none (lines 48-55)
KeyError(sig, use_dill) ==
    IF use_dill /\ ~dillInstalled THEN "ImportError"
    ELSE IF ~KeyDerivable(sig, use_dill) THEN "PicklingError"
    ELSE ""

\* Lookup with the test of the file left out of line 62's condition
LookupNoFile(use_cache, refresh_cache, path) == FALSE

\* Lookup with refresh_cache left out of line 62's condition
LookupIgnoresRefresh(use_cache, refresh_cache, path) ==
    use_cache /\ path \in DOMAIN files

\* line 62: use_cache and not refresh_cache and os.path.exists(cache_path)
Lookup(use_cache, refresh_cache, path) ==
    use_cache /\ ~refresh_cache /\ path \in DOMAIN files

\* lines 44-62: the call is made, the key derived and the record looked for
Call(t, c, sig, use_cache, refresh_cache, use_dill) ==
    /\ t \in active
    /\ c \in instances
    /\ pc[t] = "idle"
    /\ budget > 0
    /\ budget' = budget - 1
    /\ LET new == [NoCall EXCEPT !.cache = c, !.sig = sig, !.use_cache = use_cache,
                                 !.refresh_cache = refresh_cache]
       IN  IF KeyError(sig, use_dill) # ""
           THEN /\ last' = Outcome(new, "raised", NoneObj, KeyError(sig, use_dill))
                /\ UNCHANGED <<pc, call>>
           ELSE LET path == CachePath(sig, use_dill) IN
                /\ call' = [call EXCEPT ![t] =
                              [new EXCEPT !.cache_path = path,
                                          !.before = Record(files, path)]]
                /\ pc' = [pc EXCEPT ![t] =
                            IF Lookup(use_cache, refresh_cache, path)
                            THEN "rlock" ELSE "func"]
                /\ UNCHANGED last
    /\ UNCHANGED <<files, lock, stored, active, instances, dillInstalled>>

\* Released with the lock kept when the with block is left
ReleasedNever(c) == lock

\* the locks after a thread leaves the `with lock:` block of cache c (lines 63
\* and 72): the block releases the lock however it is left, by falling off
\* its end, by return or by an exception
Released(c) == [lock EXCEPT ![c] = Free]

\* AcquireRead with the read made outside the lock: the thread does not wait
AcquireReadNoWait(t) ==
    /\ pc[t] = "rlock"
    /\ pc' = [pc EXCEPT ![t] = "load"]
    /\ UNCHANGED <<files, lock, call, last, stored, budget, active, instances, dillInstalled>>

\* line 63: with lock
AcquireRead(t) ==
    /\ pc[t] = "rlock"
    /\ lock[call[t].cache] = Free
    /\ lock' = [lock EXCEPT ![call[t].cache] = t]
    /\ pc' = [pc EXCEPT ![t] = "load"]
    /\ UNCHANGED <<files, call, last, stored, budget, active, instances, dillInstalled>>

\* the exceptions line 68 catches
Caught(exc) == exc \in {"EOFError", "UnpicklingError"}

\* LoadFile with the return of line 67 left out: a record that loads is
\* dropped and the call goes on to the function
LoadFileNoReturn(t) ==
    /\ pc[t] = "load"
    /\ LET c == call[t]
           r == IF c.cache_path \in DOMAIN files THEN Load(files[c.cache_path])
                ELSE Raised("FileNotFoundError")
       IN  /\ lock' = Released(c.cache)
           /\ IF r.exc = "none" \/ Caught(r.exc)
              THEN /\ UNCHANGED <<call, last>>
                   /\ pc' = [pc EXCEPT ![t] = "func"]
              ELSE /\ last' = Outcome(c, "raised", NoneObj, r.exc)
                   /\ pc' = [pc EXCEPT ![t] = "idle"]
                   /\ call' = [call EXCEPT ![t] = NoCall]
    /\ UNCHANGED <<files, stored, budget, active, instances, dillInstalled>>

\* lines 64-69: the file is opened and unpickled; the lock is released on
\* every way out of the with block
LoadFile(t) ==
    /\ pc[t] = "load"
    /\ LET c == call[t]
           r == IF c.cache_path \in DOMAIN files THEN Load(files[c.cache_path])
                ELSE Raised("FileNotFoundError")
       IN  /\ lock' = Released(c.cache)
           /\ IF r.exc = "none"
              THEN /\ last' = Outcome(c, "returned", r.value, "")
                   /\ pc' = [pc EXCEPT ![t] = "idle"]
                   /\ call' = [call EXCEPT ![t] = NoCall]
              ELSE IF Caught(r.exc)
              THEN /\ call' = [call EXCEPT ![t].warned = @ + 1]
                   /\ pc' = [pc EXCEPT ![t] = "func"]
                   /\ UNCHANGED last
              ELSE /\ last' = Outcome(c, "raised", NoneObj, r.exc)
                   /\ pc' = [pc EXCEPT ![t] = "idle"]
                   /\ call' = [call EXCEPT ![t] = NoCall]
    /\ UNCHANGED <<files, stored, budget, active, instances, dillInstalled>>

\* RunFunc with func called inside a `with lock:` block
RunFuncHoldingLock(t, v) ==
    /\ pc[t] = "func"
    /\ lock[call[t].cache] = Free
    /\ lock' = [lock EXCEPT ![call[t].cache] = t]
    /\ call' = [call EXCEPT ![t].result = v, ![t].invoked = TRUE]
    /\ pc' = [pc EXCEPT ![t] = "wlock"]
    /\ UNCHANGED <<files, last, stored, budget, active, instances, dillInstalled>>

\* line 71: result = func(*args, **kwargs), func returning v
RunFunc(t, v) ==
    /\ pc[t] = "func"
    /\ call' = [call EXCEPT ![t].result = v, ![t].invoked = TRUE]
    /\ pc' = [pc EXCEPT ![t] = "wlock"]
    /\ UNCHANGED <<files, lock, last, stored, budget, active, instances, dillInstalled>>

\* FuncRaises with the record opened for writing before func is called
FuncRaisesAfterOpen(t) ==
    /\ pc[t] = "func"
    /\ files' = [q \in DOMAIN files \cup {call[t].cache_path} |->
                   IF q = call[t].cache_path THEN <<>> ELSE files[q]]
    /\ last' = Outcome([call[t] EXCEPT !.invoked = TRUE], "raised", NoneObj, "FuncError")
    /\ pc' = [pc EXCEPT ![t] = "idle"]
    /\ call' = [call EXCEPT ![t] = NoCall]
    /\ UNCHANGED <<lock, stored, budget, active, instances, dillInstalled>>

\* line 71, func raising: the exception leaves wrapper
FuncRaises(t) ==
    /\ pc[t] = "func"
    /\ last' = Outcome([call[t] EXCEPT !.invoked = TRUE], "raised", NoneObj, "FuncError")
    /\ pc' = [pc EXCEPT ![t] = "idle"]
    /\ call' = [call EXCEPT ![t] = NoCall]
    /\ UNCHANGED <<files, lock, stored, budget, active, instances, dillInstalled>>

\* open(cache_path, "wb"): the file is created, or truncated to zero bytes
Truncated(fs, path) ==
    [q \in DOMAIN fs \cup {path} |-> IF q = path THEN <<>> ELSE fs[q]]

\* OpenWrite with the file opened outside the lock: the writer does not wait
OpenWriteNoWait(t) ==
    /\ pc[t] = "wlock"
    /\ files' = Truncated(files, call[t].cache_path)
    /\ stored' = [stored EXCEPT ![call[t].cache_path] = NotStored]
    /\ pc' = [pc EXCEPT ![t] = "dump"]
    /\ UNCHANGED <<lock, call, last, budget, active, instances, dillInstalled>>

\* lines 72-73: with lock: with open(cache_path, "wb") as file
OpenWrite(t) ==
    /\ pc[t] = "wlock"
    /\ lock[call[t].cache] = Free
    /\ lock' = [lock EXCEPT ![call[t].cache] = t]
    /\ files' = Truncated(files, call[t].cache_path)
    /\ stored' = [stored EXCEPT ![call[t].cache_path] = NotStored]
    /\ pc' = [pc EXCEPT ![t] = "dump"]
    /\ UNCHANGED <<call, last, budget, active, instances, dillInstalled>>

\* Written with the pickle left in the file object's buffer and never flushed
WrittenUnflushed(fs, path, result) == fs

\* Written with the file removed when the pickler raises on the object
WrittenOrUnlinked(fs, path, result) ==
    IF Picklable(result)
    THEN [fs EXCEPT ![path] =
            Dumps(result) \o SubSeq(@, Len(Dumps(result)) + 1, Len(@))]
    ELSE [q \in DOMAIN fs \ {path} |-> fs[q]]

\* the file after pickle.dump(result, file) and the close of the file: the
\* pickle is written at position 0, where open(cache_path, "wb") left the file
\* object, over whatever bytes the file has by then (none, unless a writer of
\* another cache wrote meanwhile); when the pickler raises on the object
\* nothing was written
Written(fs, path, result) ==
    IF Picklable(result)
    THEN [fs EXCEPT ![path] =
            Dumps(result) \o SubSeq(@, Len(Dumps(result)) + 1, Len(@))]
    ELSE fs

\* lines 74-76: pickle.dump(result, file); return result
DumpFile(t) ==
    /\ pc[t] = "dump"
    /\ LET c == call[t] IN
       /\ files' = Written(files, c.cache_path, c.result)
       /\ lock' = Released(c.cache)
       /\ IF Picklable(c.result)
          THEN /\ stored' = [stored EXCEPT ![c.cache_path] =
                               [sig |-> c.sig, value |-> c.result, valid |-> TRUE]]
               /\ last' = Outcome(c, "returned", c.result, "")
          ELSE /\ UNCHANGED stored
               /\ last' = Outcome(c, "raised", NoneObj, "PicklingError")
    /\ pc' = [pc EXCEPT ![t] = "idle"]
    /\ call' = [call EXCEPT ![t] = NoCall]
    /\ UNCHANGED <<budget, active, instances, dillInstalled>>

Next ==
    \E t \in Threads :
        \/ \E c \in Caches, sig \in Sigs, use_cache \in BOOLEAN,
              refresh_cache \in BOOLEAN, use_dill \in BOOLEAN :
                Call(t, c, sig, use_cache, refresh_cache, use_dill)
        \/ AcquireRead(t)
        \/ LoadFile(t)
        \/ \E v \in Values : RunFunc(t, v)
        \/ FuncRaises(t)
        \/ OpenWrite(t)
        \/ DumpFile(t)

Spec == Init /\ [][Next]_vars

SeqSpec == SeqInit /\ [][Next]_vars

TwoSpec == TwoInit /\ [][Next]_vars

\* threads calling into a cache whose directory is empty, or holds one
\* damaged record on which pickle.load raises an error line 68 does not catch
FairInit ==
    /\ InitCache
    /\ instances = {"c1"}
    /\ \/ files = <<>>
       \/ \E p \in Paths, b \in CorruptedBytes :
            /\ ~Caught(Load(b).exc)
            /\ files = [q \in {p} |-> b]
    /\ budget = MaxCalls
    /\ active = Threads

\* the steps of a call after it was made: none of them waits for anything
\* but the lock, and func is taken to terminate
Proceed(t) ==
    \/ AcquireRead(t)
    \/ LoadFile(t)
    \/ \E v \in Values : RunFunc(t, v)
    \/ FuncRaises(t)
    \/ OpenWrite(t)
    \/ DumpFile(t)

\* Spec with every thread scheduled: a thread that can take its next step
\* (it is runnable, or the lock it waits for stays free) takes it in the end
FairSpec == FairInit /\ [][Next]_vars /\ \A t \in Threads : WF_vars(Proceed(t))

(***************************************************************************)
(* Vocabulary of the properties.                                            *)
(***************************************************************************)
\* thread t takes a step
Steps(t) == pc'[t] # pc[t]

\* thread t's call ends with this step: it returns or raises
Finishes(t) == pc[t] # "idle" /\ pc'[t] = "idle"

\* the call of thread t is a plain cached call: use_cache=True, refresh_cache=False
Plain(c) == c.use_cache /\ ~c.refresh_cache

\* the call that finished last and the running call c were made with
\* identical arguments and options
Repeats(c) ==
    /\ c.sig = last.sig
    /\ c.use_cache = last.use_cache
    /\ c.refresh_cache = last.refresh_cache

\* the record holds the pickle of v
Holds(fs, path, v) == Record(fs, path).exists /\ Load(Record(fs, path).bytes) = Loaded(v)

\* the call that finished last was a plain cached call that found no record
\* and returned, and c repeats it
C1_FirstMissed(c) ==
    /\ last.outcome = "returned"
    /\ Plain(last)
    /\ ~last.before.exists
    /\ Repeats(c)

(***************************************************************************)
(* C1.  Idempotence.  One thread makes a plain cached call (use_cache=True, *)
(* refresh_cache=False) while there is no record for its key, and it        *)
(* returns v; the thread then repeats the call with identical arguments.    *)
(* The first call invoked the function, the second does not invoke it and   *)
(* returns v.                                                               *)
(***************************************************************************)
C1_Idempotence ==
    [][\A t \in Threads :
         (Finishes(t) /\ C1_FirstMissed(call[t])) =>
            /\ last.invoked
            /\ last'.outcome = "returned"
            /\ last'.value = last.value
            /\ ~last'.invoked]_vars

\* the repeated call has found the first call's record and is reading it
C1_Witness ==
    \E t \in Threads :
        /\ pc[t] = "load"
        /\ C1_FirstMissed(call[t])
        /\ last.invoked
        /\ Holds(files, call[t].cache_path, last.value)

(***************************************************************************)
(* C2.  A call with use_cache=False changes no record file: whatever the    *)
(* value of refresh_cache, every step of the call leaves the set of files   *)
(* and their contents as they were, and the call never enters the read      *)
(* section.                                                                 *)
(***************************************************************************)
C2_NoCacheTouchesNothing ==
    [][\A t \in Threads :
         (pc[t] # "idle" /\ ~call[t].use_cache /\ Steps(t)) =>
            /\ files' = files
            /\ pc'[t] \notin {"rlock", "load"}]_vars

\* the call that finished last was a refresh that returned, and c is a plain
\* cached call of the same signature
C3_Refreshed(c) ==
    /\ last.outcome = "returned"
    /\ last.use_cache /\ last.refresh_cache
    /\ c.sig = last.sig
    /\ Plain(c)

(***************************************************************************)
(* C3.  A call with use_cache=True and refresh_cache=True always invokes    *)
(* the function, also when a valid record exists; when it returns v the     *)
(* record holds v; and a plain cached call of the same signature made next  *)
(* by the same thread returns v without invoking the function.              *)
(***************************************************************************)
C3_Refresh ==
    [][\A t \in Threads :
         /\ (Finishes(t) /\ call[t].use_cache /\ call[t].refresh_cache) =>
               /\ last'.invoked
               /\ last'.outcome = "returned" =>
                     Holds(files', call[t].cache_path, last'.value)
         /\ (Finishes(t) /\ C3_Refreshed(call[t])) =>
               /\ last'.outcome = "returned"
               /\ last'.value = last.value
               /\ ~last'.invoked]_vars

\* a refresh replaced a valid record by another value, and the next plain
\* call of that signature is reading the record
C3_Witness ==
    \E t \in Threads :
        /\ pc[t] = "load"
        /\ C3_Refreshed(call[t])
        /\ last.before.exists
        /\ Load(last.before.bytes).exc = "none"
        /\ Load(last.before.bytes).value # last.value
        /\ last.invoked

(***************************************************************************)
(* C4.  When pickle.dump cannot serialize the result, the store fails with  *)
(* an error and the record is as it was before the call: absent if it was   *)
(* absent, and holding its previous bytes if it existed.                    *)
(***************************************************************************)
C4_FailedStoreLeavesRecord ==
    [][\A t \in Threads :
         (pc[t] = "dump" /\ ~Picklable(call[t].result) /\ Finishes(t)) =>
            /\ last'.outcome = "raised"
            /\ Record(files', call[t].cache_path) = call[t].before]_vars

(***************************************************************************)
(* C5.  Whenever the record read by a plain cached call fails to            *)
(* deserialize, the lookup is a miss: one warning is logged, nothing is     *)
(* raised, and the call goes on to run the function.                        *)
(***************************************************************************)
C5_CorruptedIsMiss ==
    [][\A t \in Threads :
         (/\ pc[t] = "load"
          /\ Steps(t)
          /\ Load(Record(files, call[t].cache_path).bytes).exc # "none") =>
            /\ pc'[t] = "func"
            /\ call'[t].warned = 1]_vars

\* thread t is inside the read section or the write section
InSection(t) == pc[t] \in {"load", "dump"}

\* a writer has truncated the record and not yet dumped into it
HalfWritten(path) == \E u \in Threads : pc[u] = "dump" /\ call[u].cache_path = path

(***************************************************************************)
(* C6.  The read section of a lookup and the write section of a store of    *)
(* one cache exclude each other: at most one thread is inside either, it    *)
(* holds the lock, and no thread is reading a record that another thread    *)
(* has opened for writing and not yet written.                              *)
(***************************************************************************)
C6_MutualExclusion ==
    /\ \A t \in Threads : InSection(t) => lock[call[t].cache] = t
    /\ \A t, u \in Threads :
         (t # u /\ InSection(t) /\ InSection(u)) => call[t].cache # call[u].cache
    /\ \A t \in Threads : pc[t] = "load" => ~HalfWritten(call[t].cache_path)

\* a reader saw the file exist before taking the lock and waits for it while
\* a writer holds the record truncated
C6_Witness ==
    \E t, u \in Threads :
        /\ pc[t] = "rlock"
        /\ pc[u] = "dump"
        /\ call[t].cache_path = call[u].cache_path
        /\ files[call[u].cache_path] = <<>>

(***************************************************************************)
(* C7.  Round trip.  Once a store of v under a key has completed and no     *)
(* store to that key has begun since, the record deserializes to v, and a   *)
(* lookup of the key is a hit that returns v.                               *)
(***************************************************************************)
C7_RoundTrip ==
    [][/\ \A p \in Paths : stored'[p].valid => Holds(files', p, stored'[p].value)
       /\ \A t \in Threads :
            (pc[t] = "load" /\ Steps(t) /\ stored[call[t].cache_path].valid) =>
               /\ Finishes(t)
               /\ last'.outcome = "returned"
               /\ last'.value = stored[call[t].cache_path].value]_vars

\* a lookup has just returned the value another call stored
C7_Witness ==
    /\ last.outcome = "returned"
    /\ ~last.invoked
    /\ stored[last.cache_path].valid
    /\ stored[last.cache_path].value = last.value
    /\ Holds(files, last.cache_path, last.value)

\* the keyword mapping name -> value of a call
KwMap(kwargs) == {kwargs[i] : i \in 1..Len(kwargs)}

SameSignature(s1, s2) ==
    /\ s1.name = s2.name
    /\ s1.args = s2.args
    /\ KwMap(s1.kwargs) = KwMap(s2.kwargs)
    /\ s1.cache_nonce = s2.cache_nonce

NonceVariants(s1, s2) ==
    /\ s1.name = s2.name
    /\ s1.args = s2.args
    /\ s1.kwargs = s2.kwargs
    /\ s1.cache_nonce # s2.cache_nonce

\* the call that finished last returned, and c is the same cached call with
\* another nonce
C9_After(c) ==
    /\ last.outcome = "returned"
    /\ last.use_cache /\ c.use_cache
    /\ last.refresh_cache = c.refresh_cache
    /\ NonceVariants(c.sig, last.sig)

(***************************************************************************)
(* C9.  Two cached calls (use_cache=True) that differ only in cache_nonce   *)
(* derive different keys and keep separate records: the second call leaves  *)
(* the first call's record as it is, invokes the function when its own key  *)
(* has no record, and when it returns each record holds its own result.     *)
(***************************************************************************)
C9_NonceSeparatesRecords ==
    [][\A t \in Threads :
         (pc[t] # "idle" /\ C9_After(call[t])) =>
            /\ call[t].cache_path # last.cache_path
            /\ ~last.before.exists => last.invoked
            /\ Steps(t) =>
                 Record(files', last.cache_path) = Record(files, last.cache_path)
            /\ (Finishes(t) /\ ~call[t].before.exists) => last'.invoked
            /\ (Finishes(t) /\ last'.outcome = "returned") =>
                 /\ Holds(files', last.cache_path, last.value)
                 /\ Holds(files', call[t].cache_path, last'.value)]_vars

\* the first call missed, ran the function and stored its result; the call
\* with the other nonce missed too and is storing a different result
C9_Witness ==
    \E t \in Threads :
        /\ pc[t] = "dump"
        /\ C9_After(call[t])
        /\ ~last.before.exists /\ last.invoked
        /\ ~call[t].before.exists /\ call[t].invoked
        /\ Picklable(call[t].result) /\ call[t].result # last.value
        /\ Holds(files, last.cache_path, last.value)

(***************************************************************************)
(* C10.  Key determinism.  Two calls with equal signatures (the same name,  *)
(* positional arguments, keyword mapping and nonce) derive the same key,    *)
(* also when the keywords are given in a different order.                   *)
(***************************************************************************)
C10_EqualSignaturesEqualKeys ==
    \A t \in Threads :
        (pc[t] # "idle" /\ last.cache_path # "" /\ SameSignature(call[t].sig, last.sig))
            => call[t].cache_path = last.cache_path

\* key derivation cannot succeed for this call: the richer serializer is asked
\* for and missing, or an argument of the signature cannot be serialized
C11_Underivable(sig, use_dill) ==
    (use_dill /\ ~dillInstalled) \/ ~SigPicklable(sig)

(***************************************************************************)
(* C11.  Key-derivation failure.  A call whose key cannot be derived (dill  *)
(* requested and not installed, or an unserializable argument) fails at     *)
(* once with an error: the thread enters no lookup and no computation, the  *)
(* function is not invoked, no lock is taken and no record file is created  *)
(* or changed.                                                              *)
(***************************************************************************)
C11_KeyFailureFailsFast ==
    [][\A t \in Threads, sig \in Sigs, use_dill \in BOOLEAN :
         (/\ budget' # budget
          /\ pc[t] = "idle"
          /\ C11_Underivable(sig, use_dill)
          /\ \E c \in Caches, use_cache \in BOOLEAN, refresh_cache \in BOOLEAN :
                Call(t, c, sig, use_cache, refresh_cache, use_dill)) =>
            /\ last'.outcome = "raised"
            /\ last'.exc \in {"ImportError", "PicklingError"}
            /\ last'.sig = sig
            /\ ~last'.invoked
            /\ pc'[t] = "idle"
            /\ call' = call
            /\ files' = files
            /\ lock' = lock]_vars

\* a call asking for dill, which is not installed, has just failed while the
\* directory holds a record
C11_Witness ==
    /\ ~dillInstalled
    /\ last.outcome = "raised"
    /\ last.exc = "ImportError"
    /\ ~last.invoked
    /\ SigPicklable(last.sig)
    /\ files # <<>>
    /\ \A t \in Threads : pc[t] = "idle"

(***************************************************************************)
(* C12.  One lock for the directory.  When two caches are constructed on    *)
(* the same directory in one process, no thread reads a record through one  *)
(* cache while a thread storing through the other cache has the same record *)
(* opened for writing and not yet written.                                  *)
(***************************************************************************)
C12_NoHalfWrittenReadAcrossInstances ==
    \A t, u \in Threads :
        (pc[t] = "load" /\ pc[u] = "dump" /\ call[t].cache # call[u].cache)
            => call[t].cache_path # call[u].cache_path

\* the record the call found at its key does not deserialize
C13_FoundCorrupted(c) ==
    /\ Plain(c)
    /\ c.before.exists
    /\ Load(c.before.bytes).exc # "none"

(***************************************************************************)
(* C13.  Self-healing.  A plain cached call that finds a corrupted record   *)
(* runs the function and, when it returns, has overwritten the record with  *)
(* the pickle of the value it returns; the identical call made next is a    *)
(* hit: it returns that value and does not run the function.                *)
(***************************************************************************)
C13_CorruptionSelfHeals ==
    [][\A t \in Threads :
         /\ (Finishes(t) /\ C13_FoundCorrupted(call[t])) =>
               /\ last'.invoked
               /\ last'.outcome = "returned" =>
                     Holds(files', last'.cache_path, last'.value)
         /\ (/\ Finishes(t)
             /\ Repeats(call[t])
             /\ C13_FoundCorrupted(last)
             /\ last.outcome = "returned") =>
               /\ last'.outcome = "returned"
               /\ last'.value = last.value
               /\ ~last'.invoked]_vars

\* the plain cached call c found a record at its key that deserializes
C14_FoundValid(c) ==
    /\ Plain(c)
    /\ c.before.exists
    /\ Load(c.before.bytes).exc = "none"

(***************************************************************************)
(* C14.  Store only on a miss.  A plain cached call (use_cache=True,        *)
(* refresh_cache=False) that finds a valid record returns the recorded      *)
(* value without invoking the function, and none of its steps writes,       *)
(* truncates or replaces a file: the directory is the same after the call.  *)
(***************************************************************************)
C14_HitLeavesStore ==
    [][\A t \in Threads :
         /\ (Finishes(t) /\ C14_FoundValid(call[t])) =>
               /\ last'.outcome = "returned"
               /\ last'.value = Load(call[t].before.bytes).value
               /\ ~last'.invoked
               /\ files' = files
               /\ Record(files', call[t].cache_path) = call[t].before
         /\ (Steps(t) /\ C14_FoundValid(call'[t])) => files' = files
         /\ (Steps(t) /\ C14_FoundValid(call[t])) => files' = files]_vars

\* a plain cached call has just returned the value of a record that was
\* there before it, and the record is as it was
C14_Witness ==
    /\ \A t \in Threads : pc[t] = "idle"
    /\ last.outcome = "returned"
    /\ C14_FoundValid(last)
    /\ ~last.invoked
    /\ last.value = 16
    /\ Record(files, last.cache_path) = last.before

\* the running call c and the call that finished last are plain cached calls
\* with the same signature, and both found no record:
\* c looked before the other call created the file, so the two overlapped
C15_BothMissed(c) ==
    /\ Plain(c) /\ Plain(last)
    /\ c.sig = last.sig
    /\ c.cache_path = last.cache_path
    /\ ~c.before.exists
    /\ ~last.before.exists
    /\ last.outcome = "returned"

(***************************************************************************)
(* C15.  Racing misses.  Two threads make the same plain cached call and    *)
(* both find no record.  Both invoke the function and both store; when the  *)
(* second of them has returned, the record file is byte for byte the        *)
(* pickle of the value that call returned (the later write): no bytes of    *)
(* the other result are in it and it is not a partial file.                 *)
(***************************************************************************)
C15_RacingMissesLeaveOneResult ==
    [][\A t \in Threads :
         (/\ Finishes(t)
          /\ C15_BothMissed(call[t])
          /\ last'.outcome = "returned") =>
            /\ last.invoked
            /\ last'.invoked
            /\ pc[t] = "dump"
            /\ Record(files', last'.cache_path) =
                  [exists |-> TRUE, bytes |-> Dumps(last'.value)]
            /\ Holds(files', last'.cache_path, last'.value)]_vars

\* two threads missed the same key together; the first has stored its result
\* and returned, and the second, with a different result, is storing
C15_Witness ==
    \E t \in Threads :
        /\ pc[t] = "dump"
        /\ C15_BothMissed(call[t])
        /\ last.invoked
        /\ Picklable(call[t].result)
        /\ call[t].result # last.value
        /\ Len(Dumps(call[t].result)) < Len(Dumps(last.value))

(***************************************************************************)
(* C16.  No call blocks for ever.  With every thread scheduled and func     *)
(* terminating, a call that was made returns or raises in the end, and the  *)
(* thread then holds no lock; every step that leaves a read section or a    *)
(* write section (a hit returning, a corrupted record, an error raised by   *)
(* the load or the dump) frees the lock of the cache.                       *)
(***************************************************************************)
C16_EveryCallEnds ==
    /\ \A t \in Threads :
         (pc[t] # "idle") ~> (pc[t] = "idle" /\ \A c \in Caches : lock[c] # t)
    /\ [][\A t \in Threads :
            (InSection(t) /\ Steps(t)) => lock'[call[t].cache] = Free]_vars

\* a thread has to wait at the write section for the lock another thread
\* holds while it stores
C16_Witness ==
    \E t, u \in Threads :
        /\ t # u
        /\ pc[t] = "wlock"
        /\ pc[u] = "dump"
        /\ call[t].cache = call[u].cache
        /\ lock[call[t].cache] = u

\* thread t has seen its record exist (line 62) and has not yet read it
C17_SawRecord(t) == pc[t] \in {"rlock", "load"}

(***************************************************************************)
(* C17.  No deletion.  No step removes a file from the directory: the set   *)
(* of keys that have a record only grows.  So the file a call saw exist at  *)
(* the unlocked test of line 62 is still there while the call waits for     *)
(* the lock and when it opens the file under it: the open never fails with  *)
(* FileNotFoundError.                                                       *)
(***************************************************************************)
C17_RecordsNeverDeleted ==
    [][/\ DOMAIN files \subseteq DOMAIN files'
       /\ \A t \in Threads :
            C17_SawRecord(t)' => call'[t].cache_path \in DOMAIN files'
       /\ last'.exc # "FileNotFoundError"]_vars

\* a call saw its record exist while a writer had it truncated; the writer
\* has since written it, and the call still waits to read the file
C17_Witness ==
    \E t \in Threads :
        /\ pc[t] = "rlock"
        /\ call[t].before = [exists |-> TRUE, bytes |-> <<>>]
        /\ Record(files, call[t].cache_path).exists
        /\ Record(files, call[t].cache_path) # call[t].before
        /\ lock[call[t].cache] = Free

\* func raises in thread t's call with this step
C18_FuncRaised(t) == pc[t] = "func" /\ Finishes(t)

(***************************************************************************)
(* C18.  A raising computation.  When func raises, the call raises func's   *)
(* error and the directory is as the call found it: no file was created,    *)
(* the record at the call's key, if there was one (valid or corrupted),     *)
(* has the bytes it had, and the thread holds no lock.                      *)
(***************************************************************************)
C18_FuncErrorLeavesStore ==
    [][\A t \in Threads :
         C18_FuncRaised(t) =>
            /\ last'.outcome = "raised"
            /\ last'.exc = "FuncError"
            /\ files' = files
            /\ Record(files', call[t].cache_path) = call[t].before
            /\ \A c \in Caches : lock'[c] # t]_vars

\* func has just raised in a plain cached call that had found a corrupted
\* record and gone on to recompute; the record is as it was
C18_Witness ==
    /\ \A t \in Threads : pc[t] = "idle"
    /\ last.exc = "FuncError"
    /\ Plain(last)
    /\ last.before.exists
    /\ Load(last.before.bytes).exc # "none"
    /\ Record(files, last.cache_path) = last.before

\* thread t waits to enter a read section or a write section
C19_Waits(t) == pc[t] \in {"rlock", "wlock"}

(***************************************************************************)
(* C19.  The lock is not held across func.  Whoever holds the lock of a     *)
(* cache is inside a read section or a write section of that cache; a       *)
(* thread that is calling func, or is between func and its store, holds no  *)
(* lock.  So a thread that waits for a lock while every other thread is     *)
(* outside the sections (computing, idle, or waiting too) can take it: a    *)
(* call made from inside func, and a lookup made while another thread       *)
(* computes, are not blocked.                                               *)
(***************************************************************************)
C19_LockOnlyInSections ==
    /\ \A c \in Caches :
         lock[c] # Free =>
            /\ lock[c] \in Threads
            /\ InSection(lock[c])
            /\ call[lock[c]].cache = c
    /\ \A t \in Threads :
         pc[t] \in {"idle", "func", "rlock", "wlock"} => \A c \in Caches : lock[c] # t
    /\ \A t \in Threads :
         (C19_Waits(t) /\ \A u \in Threads \ {t} : ~InSection(u)) =>
            ENABLED (AcquireRead(t) \/ OpenWrite(t))

\* one thread is in func while the other, which holds no lock either, is
\* about to enter its write section
C19_Witness ==
    \E t, u \in Threads :
        /\ pc[u] = "func"
        /\ pc[t] = "wlock"
        /\ call[t].cache = call[u].cache
        /\ call[t].cache_path = call[u].cache_path
        /\ lock[call[t].cache] = Free

====
